---- MODULE Spec2Model ----
(***************************************************************************)
(* State-machine model of main.py: the Discord -> X relay.                 *)
(*                                                                         *)
(* One asyncio event loop (the dispatcher thread) runs the discord.py      *)
(* event handlers as coroutines.  A coroutine gives up the loop only at an *)
(* await that really suspends: the two run_in_executor calls of post_to_x  *)
(* (media download, media upload).  Everything between two such awaits     *)
(* runs without another handler in between; `running` names the coroutine  *)
(* that owns the loop.  A handler that never awaits (the connection        *)
(* events, on_message up to its call of post_to_x) is one action; the      *)
(* publish path is one action per network call and per `with state_lock`   *)
(* section or save_state call.                                             *)
(*                                                                         *)
(* Six specifications share the variables:                                 *)
(*   Spec           the dispatcher thread alone; every handler that does   *)
(*                  not await, on_ready with its load_state included, is   *)
(*                  one action;                                            *)
(*   SpecFair       the same actions under fair scheduling of the event    *)
(*                  loop and the worker pool;                              *)
(*   SpecThreads    the dispatcher and the status thread (Flask): the      *)
(*                  unlocked assignments of load_state and the reads of    *)
(*                  route_api_status are single steps, state_lock is held  *)
(*                  across the steps of route_api_status;                  *)
(*   SpecLock       both threads again, every function reduced to its      *)
(*                  operations on state_lock and the calls it makes        *)
(*                  between them, one operation a step;                    *)
(*   SpecLog        add_activity called repeatedly on the empty log;       *)
(*   SpecRoundTrip  save_state and load_state on the JSON file, with the   *)
(*                  Python types of the keys and values.                   *)
(*                                                                         *)
(* Not modelled: log lines, wall-clock timestamps and the text of the      *)
(* activity details (only the message id they carry is kept).              *)
(***************************************************************************)
EXTENDS Integers, Sequences, FiniteSets, TLC

\* ------------------------------------------------------------------ bounds
MaxMsgs == 2          \* messages delivered in one run
MaxAttachments == 5   \* attachments over the messages handled at one time
MaxEvents == 1        \* connection-lifecycle events in one run
MaxInserts == 11      \* add_activity calls made on an empty log
MaxCount == 2         \* largest counter value saved to the JSON file
MaxThreadMsgs == 1    \* messages delivered while the status thread runs
MaxThreadAttachments == 1   \* attachments of such a message
MaxFairMsgs == 2      \* messages delivered under fair scheduling
MaxFairAttachments == 1     \* attachments of such a message
MaxLockTasks == 2     \* handlers whose lock operations are followed
MaxLockMedia == 1     \* attachments of a message handled by such a handler

\* ------------------------------------------------------- program constants
ActivityCap == 10     \* recent_activity = deque(maxlen=10)
MediaLimit == 4       \* if processed_media_count >= 4: break
None == 0             \* Python's None (no X post id is 0)
ReadyTask == -1       \* `running` when the on_ready coroutine owns the loop
StatusTask == 0       \* the task of the status thread; 1, 2, .. are coroutines
FirstXId == 101       \* ids the remote service hands out: 101, 102, ...

MsgIds == 1 .. MaxMsgs
\* A thread of the monitored channel has the id of its starter message; 0 is
\* a starter message that was posted before this run.
RootIds == 0 .. MaxMsgs

Min(a, b) == IF a < b THEN a ELSE b

VARIABLES
    USING_REPLIT_DB,               \* backend chosen at import time
    clients_ok,                    \* client_v2 and api_v1 are both not None
    discord_message_to_x_post_map, \* [RootIds -> X id or None]
    posts_attempted,
    posts_succeeded,
    posts_failed,
    discord_status,
    last_x_api_status,
    recent_activity,               \* newest first, at most ActivityCap long
    storage,                       \* state_db / MAPPING_FILE: the persisted document
    x_posts,                       \* tweets the remote service has created
    msgs,                          \* per message: the on_message coroutine
    running,                       \* the coroutine that owns the event loop, or None
    events,                        \* connection-lifecycle events so far
    unsaved,                       \* a save_state call failed, none succeeded since
    state_lock,                    \* the thread that holds state_lock, or "free"
    status_request,                \* the status thread: one route_api_status call
    ready,                         \* the on_ready coroutine, when run step by step
    lock_ops                       \* per task: the lock operations it has yet to make

vars == << USING_REPLIT_DB, clients_ok, discord_message_to_x_post_map,
           posts_attempted, posts_succeeded, posts_failed, discord_status,
           last_x_api_status, recent_activity, storage, x_posts, msgs,
           running, events, unsaved, state_lock, status_request, ready,
           lock_ops >>

config == << USING_REPLIT_DB, clients_ok >>
counters == << posts_attempted, posts_succeeded, posts_failed >>
threads == << state_lock, status_request, ready, lock_ops >>

EmptyMap == [k \in RootIds |-> None]
NoRequest == [k \in {} |-> None]

\* The persisted document.  file is "missing" or "corrupt" for the JSON file
\* only; a key that is absent reads as its .get default.
EmptyStorage ==
    [file |-> "missing", map |-> EmptyMap, attempted |-> 0, succeeded |-> 0,
     failed |-> 0]

\* The locals of one on_message coroutine and of its post_to_x call, with a
\* record of what it did for the properties: calls, the network calls it
\* made; raised_at, which of them raised; request, what it gave create_tweet.
NewMsg ==
    [pc |-> "new", author_self |-> FALSE, place |-> "channel", root |-> 0,
     text |-> "", n_att |-> 0,
     is_initial |-> FALSE, reply_to |-> None, count |-> 0, media_ids |-> << >>,
     new_tweet_id |-> None, new_x_post_id |-> None,
     calls |-> << >>, raised_at |-> 0, raised |-> FALSE,
     request |-> NoRequest, outcome |-> "none",
     activities |-> << >>, saves |-> 0, map_saved |-> FALSE]

MediaId(m, k) == << m, k >>     \* uploaded_media.media_id_string

\* ------------------------------------------------------------ activity log
Activity(type, status, id) == [type |-> type, status |-> status, id |-> id]

\* a plain list in place of the bounded deque: list.insert(0, entry)
AppendLeft_NoCap(log, entry) == << entry >> \o log

\* deque(maxlen=ActivityCap).appendleft(entry)
AppendLeft(log, entry) ==
    SubSeq(<< entry >> \o log, 1, Min(Len(log) + 1, ActivityCap))

\* add_activity: one state_lock section that writes recent_activity
add_activity(type, status, id) ==
    recent_activity' = AppendLeft(recent_activity, Activity(type, status, id))

StartingActivity == Activity("System", "Starting", 0)
XInitFailedActivity == Activity("System", "Error", 0)

\* ------------------------------------------------------------- persistence
\* The document save_state writes from the in-memory state.
CurrentDoc ==
    [file |-> "ok", map |-> discord_message_to_x_post_map,
     attempted |-> posts_attempted, succeeded |-> posts_succeeded,
     failed |-> posts_failed]

\* Replit DB: four key writes in a row; an exception after k of them is
\* logged and swallowed, the k keys stay written.
ReplitSave(k) ==
    [file |-> "ok",
     map |-> IF k >= 1 THEN discord_message_to_x_post_map ELSE storage.map,
     attempted |-> IF k >= 2 THEN posts_attempted ELSE storage.attempted,
     succeeded |-> IF k >= 3 THEN posts_succeeded ELSE storage.succeeded,
     failed |-> IF k >= 4 THEN posts_failed ELSE storage.failed]

\* JSON file: open(.., 'w') fails and leaves the file alone, or json.dump fails
\* on the truncated file, or the whole document is written.
FileSave(r) ==
    CASE r = "ok" -> CurrentDoc
      [] r = "open_failed" -> storage
      [] OTHER -> [EmptyStorage EXCEPT !.file = "corrupt"]

SaveResults ==
    IF USING_REPLIT_DB THEN {"ok", "failed_0", "failed_1", "failed_2", "failed_3"}
    ELSE {"ok", "open_failed", "dump_failed"}

KeysWritten(r) ==
    CASE r = "ok" -> 4 [] r = "failed_0" -> 0 [] r = "failed_1" -> 1
      [] r = "failed_2" -> 2 [] OTHER -> 3

\* save_state with result r: never raises, never touches the memory state
save_state(r) ==
    storage' = IF USING_REPLIT_DB THEN ReplitSave(KeysWritten(r)) ELSE FileSave(r)

Fresh == [map |-> EmptyMap, attempted |-> 0, succeeded |-> 0, failed |-> 0]

\* an except branch that only logs: memory keeps what it had
Loaded_KeepOnError(r) ==
    IF r = "ok" /\ storage.file = "ok"
    THEN [map |-> storage.map, attempted |-> storage.attempted,
          succeeded |-> storage.succeeded, failed |-> storage.failed]
    ELSE [map |-> discord_message_to_x_post_map, attempted |-> posts_attempted,
          succeeded |-> posts_succeeded, failed |-> posts_failed]

\* What load_state leaves in memory: the persisted values, or the fresh state
\* when the read raised (backend unreachable, file missing, JSON corrupt).
Loaded(r) ==
    IF r = "ok" /\ storage.file = "ok"
    THEN [map |-> storage.map, attempted |-> storage.attempted,
          succeeded |-> storage.succeeded, failed |-> storage.failed]
    ELSE Fresh

LoadResults == {"ok", "error"}

\* load_state with result r: assigns the four globals, takes no lock
load_state(r) ==
    /\ discord_message_to_x_post_map' = Loaded(r).map
    /\ posts_attempted' = Loaded(r).attempted
    /\ posts_succeeded' = Loaded(r).succeeded
    /\ posts_failed' = Loaded(r).failed

\* get_x_post_id: dict.get, None when the key is absent
get_x_post_id(id) == discord_message_to_x_post_map[id]

\* ------------------------------------------------------------------ threads
\* `with state_lock:` is entered when no thread holds the lock
LockFree == state_lock = "free"

\* The locals of one route_api_status call on the status thread, and the
\* values the three counters had together since it took the lock (instants).
IdleRequest ==
    [pc |-> "idle", activity_log |-> << >>, current_discord_status |-> "",
     current_last_x_api_status |-> "", current_posts_attempted |-> 0,
     current_posts_succeeded |-> 0, current_posts_failed |-> 0,
     instants |-> {}]

\* on_ready is not running; r is the result of its load_state when it is
NotReady == [pc |-> "idle", r |-> "ok"]

\* The tasks that take state_lock, and what each has yet to do: the status
\* thread serves no request, no coroutine has been started for an event
LockTasks == StatusTask .. MaxLockTasks
NoLockOps == [t \in LockTasks |-> IF t = StatusTask THEN << >> ELSE << "event" >>]

\* The module's globals once it is imported, but for the activity log
Imported ==
    /\ USING_REPLIT_DB \in BOOLEAN
    /\ clients_ok \in BOOLEAN
    /\ discord_message_to_x_post_map = EmptyMap
    /\ posts_attempted = 0
    /\ posts_succeeded = 0
    /\ posts_failed = 0
    /\ discord_status = "Initializing"
    /\ last_x_api_status = "Unknown"
    /\ storage = IF USING_REPLIT_DB THEN [EmptyStorage EXCEPT !.file = "ok"]
                 ELSE EmptyStorage
    /\ x_posts = 0
    /\ msgs = [m \in MsgIds |-> NewMsg]
    /\ running = None
    /\ events = 0
    /\ unsaved = FALSE
    /\ state_lock = "free"
    /\ status_request = IdleRequest
    /\ ready = NotReady
    /\ lock_ops = NoLockOps

\* The state when client.run starts: the log holds what the set-up logged
Init ==
    /\ Imported
    /\ recent_activity = IF clients_ok THEN << StartingActivity >>
                         ELSE << StartingActivity, XInitFailedActivity >>


\* ---------------------------------------------------------------- on_message
Delivered(m) == msgs[m].pc # "new"
AttachmentsSoFar == LET S[k \in 0 .. MaxMsgs] ==
                            IF k = 0 THEN 0 ELSE S[k - 1] + msgs[k].n_att
                    IN S[MaxMsgs]

\* The handler returns: its message and its locals are gone.  What stays is
\* what later properties ask about: how it ended, whether it was an initial
\* message, the id create_tweet returned, and its activity and save counts.
Finish(rec, outcome) ==
    [NewMsg EXCEPT !.pc = "done", !.outcome = outcome,
                   !.is_initial = rec.is_initial,
                   !.new_tweet_id = rec.new_tweet_id, !.raised = rec.raised,
                   !.activities = rec.activities, !.saves = rec.saves,
                   !.map_saved = rec.map_saved]
Did(rec, status) == [rec EXCEPT !.activities = Append(@, status)]
Called(rec, call) == [rec EXCEPT !.calls = Append(@, call)]
Raised(rec) == [rec EXCEPT !.raised = TRUE, !.raised_at = Len(rec.calls)]

\* on_message without its `if message.author == client.user: return`
Ignored_NoSelfCheck(author_self, place) == place = "elsewhere"

\* if not (is_in_target_channel or is_in_target_thread), or the bot's own message
Ignored(author_self, place) == author_self \/ place = "elsewhere"

\* a thread reply with no mapping posted as a new tweet all the same
IgnoredReply_PostAnyway(place, root) == FALSE

\* the else branch of `if original_x_post_id:` for a message in a thread
IgnoredReply(place, root) == place = "thread" /\ get_x_post_id(root) = None

\* on_message without its empty-message check
Empty_NoCheck(text, n_att) == FALSE

\* if not x_content and not message.attachments
Empty(text, n_att) == text = "" /\ n_att = 0

\* on_message up to the call of post_to_x.  The message is the input: its
\* author, where it was posted (root: the thread's starter message), its text
\* and its number of attachments.
on_message(m, author_self, place, root, text, n_att) ==
    /\ running = None
    /\ msgs[m].pc = "new"
    /\ \A k \in MsgIds : k < m => Delivered(k)
    /\ root < m
    /\ AttachmentsSoFar + n_att <= MaxAttachments
    /\ LET rec == [msgs[m] EXCEPT !.author_self = author_self, !.place = place,
                                  !.root = root, !.text = text, !.n_att = n_att]
       IN CASE Ignored(author_self, place) ->
                 /\ msgs' = [msgs EXCEPT ![m] = Finish(rec, "ignored")]
                 /\ UNCHANGED << recent_activity, running >>
            [] ~Ignored(author_self, place) /\ IgnoredReply(place, root) ->
                 /\ LockFree
                 /\ add_activity("Warning", "Ignored Reply", m)
                 /\ msgs' = [msgs EXCEPT
                        ![m] = Finish(Did(rec, "Ignored Reply"), "ignored_reply")]
                 /\ UNCHANGED running
            [] ~Ignored(author_self, place) /\ ~IgnoredReply(place, root)
                 /\ Empty(text, n_att) ->
                 /\ LockFree
                 /\ add_activity("Info", "Skipped", m)
                 /\ msgs' = [msgs EXCEPT
                        ![m] = Finish(Did(rec, "Skipped"), "skipped")]
                 /\ UNCHANGED running
            [] OTHER ->
                 /\ place = "thread" => LockFree
                 /\ msgs' = [msgs EXCEPT ![m] =
                        [rec EXCEPT !.pc = "post_to_x",
                                    !.is_initial = (place = "channel"),
                                    !.reply_to = IF place = "thread"
                                                 THEN get_x_post_id(root)
                                                 ELSE None]]
                 /\ running' = m
                 /\ UNCHANGED recent_activity
    /\ UNCHANGED << config, threads, unsaved, discord_message_to_x_post_map,
                    counters, discord_status, last_x_api_status, storage,
                    x_posts, events >>

\* ----------------------------------------------------------------- post_to_x
\* the loop without its `if processed_media_count >= 4: break`
MoreMedia_NoLimit(n_att, count) == count < n_att

\* the for loop's test: another attachment, and fewer than 4 processed
MoreMedia(n_att, count) == count < n_att /\ count < MediaLimit

\* The coroutine after `count` attachments: it submits the next download to
\* the executor and suspends, or goes on to the tweet.
NextMedia(rec, m) ==
    IF MoreMedia(rec.n_att, rec.count)
    THEN Called([rec EXCEPT !.pc = "download"], << "download", rec.count + 1 >>)
    ELSE [rec EXCEPT !.pc = "create_tweet"]

\* a media error that is logged and not re-raised: the tweet goes out
AfterMediaError_PostAnyway == "create_tweet"

\* where an exception raised while an attachment is processed ends up
AfterMediaError == "fail"

\* media_ids_v1.append(uploaded_media.media_id_string)
AppendMedia(ids, id) == Append(ids, id)

\* posts_attempted += 1 placed above the client check
PostToXBegin_CountFirst(m) ==
    /\ running = m
    /\ msgs[m].pc = "post_to_x"
    /\ LockFree
    /\ posts_attempted' = posts_attempted + 1
    /\ IF ~clients_ok
       THEN /\ add_activity("X Post", "Failed", m)
            /\ msgs' = [msgs EXCEPT ![m] = Finish(Did(@, "Failed"), "no_client")]
            /\ running' = None
       ELSE /\ msgs' = [msgs EXCEPT ![m] = NextMedia(@, m)]
            /\ running' = IF msgs'[m].pc = "download" THEN None ELSE m
            /\ UNCHANGED recent_activity
    /\ UNCHANGED << config, threads, unsaved, discord_message_to_x_post_map,
                    posts_succeeded, posts_failed, discord_status,
                    last_x_api_status, storage, x_posts, events >>

\* post_to_x from its first line to the first await: the client check, then
\* posts_attempted += 1 under the lock.
PostToXBegin(m) ==
    /\ running = m
    /\ msgs[m].pc = "post_to_x"
    /\ LockFree
    /\ IF ~clients_ok
       THEN /\ add_activity("X Post", "Failed", m)
            /\ msgs' = [msgs EXCEPT ![m] = Finish(Did(@, "Failed"), "no_client")]
            /\ running' = None
            /\ UNCHANGED posts_attempted
       ELSE /\ posts_attempted' = posts_attempted + 1
            /\ msgs' = [msgs EXCEPT ![m] = NextMedia(@, m)]
            /\ running' = IF msgs'[m].pc = "download" THEN None ELSE m
            /\ UNCHANGED recent_activity
    /\ UNCHANGED << config, threads, unsaved, discord_message_to_x_post_map,
                    posts_succeeded, posts_failed, discord_status,
                    last_x_api_status, storage, x_posts, events >>

\* requests.get in the executor returns (ok) or raises; on ok the coroutine
\* reads the body and submits the upload.
DownloadReturn(m, ok) ==
    /\ running = None
    /\ msgs[m].pc = "download"
    /\ IF ok
       THEN /\ msgs' = [msgs EXCEPT ![m] =
                   Called([@ EXCEPT !.pc = "upload"], << "upload", @.count + 1 >>)]
            /\ UNCHANGED running
       ELSE /\ msgs' = [msgs EXCEPT ![m] =
                   [Raised(@) EXCEPT !.pc = AfterMediaError]]
            /\ running' = m
    /\ UNCHANGED << config, threads, unsaved, discord_message_to_x_post_map,
                    counters, discord_status, last_x_api_status,
                    recent_activity, storage, x_posts, events >>

\* api_v1.media_upload in the executor returns (ok) or raises
UploadReturn(m, ok) ==
    /\ running = None
    /\ msgs[m].pc = "upload"
    /\ IF ok
       THEN /\ msgs' = [msgs EXCEPT ![m] =
                   NextMedia([@ EXCEPT
                       !.media_ids = AppendMedia(@, MediaId(m, msgs[m].count + 1)),
                       !.count = @ + 1], m)]
            /\ running' = IF msgs'[m].pc = "download" THEN None ELSE m
       ELSE /\ msgs' = [msgs EXCEPT ![m] =
                   [Raised(@) EXCEPT !.pc = AfterMediaError]]
            /\ running' = m
    /\ UNCHANGED << config, threads, unsaved, discord_message_to_x_post_map,
                    counters, discord_status, last_x_api_status,
                    recent_activity, storage, x_posts, events >>

Only(key, present, value) == IF present THEN key :> value ELSE NoRequest

\* post_params without the `if reply_to_x_id` lines
PostParams_NoReply(text, media_ids, reply_to_x_id) ==
    ("text" :> text) @@ Only("media_ids", media_ids # << >>, media_ids)

\* post_params: text always, media_ids and in_reply_to_tweet_id when truthy
PostParams(text, media_ids, reply_to_x_id) ==
    ("text" :> text)
        @@ Only("media_ids", media_ids # << >>, media_ids)
        @@ Only("in_reply_to_tweet_id", reply_to_x_id # None, reply_to_x_id)

\* client_v2.create_tweet(**post_params), called on the event loop itself:
\* it returns a fresh id (ok) or raises
CreateTweet(m, ok) ==
    /\ running = m
    /\ msgs[m].pc = "create_tweet"
    /\ LET rec == Called([msgs[m] EXCEPT !.request =
                     PostParams(msgs[m].text, msgs[m].media_ids, msgs[m].reply_to)],
                         << "create_tweet", 0 >>)
       IN IF ok
          THEN /\ x_posts' = x_posts + 1
               /\ msgs' = [msgs EXCEPT ![m] =
                      [rec EXCEPT !.pc = "success",
                                  !.new_tweet_id = FirstXId + x_posts]]
          ELSE /\ msgs' = [msgs EXCEPT ![m] = [Raised(rec) EXCEPT !.pc = "fail"]]
               /\ UNCHANGED x_posts
    /\ UNCHANGED << config, threads, unsaved, discord_message_to_x_post_map,
                    counters, discord_status, last_x_api_status,
                    recent_activity, storage, running, events >>

\* with state_lock: posts_succeeded += 1; last_x_api_status = success
SuccessState(m) ==
    /\ running = m
    /\ msgs[m].pc = "success"
    /\ LockFree
    /\ posts_succeeded' = posts_succeeded + 1
    /\ last_x_api_status' = "Success"
    /\ msgs' = [msgs EXCEPT ![m].pc = "success_activity"]
    /\ UNCHANGED << config, threads, unsaved, discord_message_to_x_post_map,
                    posts_attempted, posts_failed, discord_status,
                    recent_activity, storage, x_posts, running, events >>

SuccessActivity(m) ==
    /\ running = m
    /\ msgs[m].pc = "success_activity"
    /\ LockFree
    /\ add_activity("X Post", "Success", m)
    /\ msgs' = [msgs EXCEPT ![m] = Did([@ EXCEPT !.pc = "success_save"], "Success")]
    /\ UNCHANGED << config, threads, unsaved, discord_message_to_x_post_map,
                    counters, discord_status, last_x_api_status, storage,
                    x_posts, running, events >>

\* save_state(), return new_tweet_id; back in on_message the test
\* `if is_initial_message and new_x_post_id`
SuccessSave(m, r) ==
    /\ running = m
    /\ msgs[m].pc = "success_save"
    /\ LockFree
    /\ r \in SaveResults
    /\ save_state(r)
    /\ unsaved' = (r # "ok")
    /\ LET rec == [msgs[m] EXCEPT !.saves = @ + 1,
                                  !.new_x_post_id = msgs[m].new_tweet_id]
       IN IF rec.is_initial /\ rec.new_x_post_id # None
          THEN /\ msgs' = [msgs EXCEPT ![m] = [rec EXCEPT !.pc = "map_write"]]
               /\ UNCHANGED running
          ELSE /\ msgs' = [msgs EXCEPT ![m] = Finish(rec, "succeeded")]
               /\ running' = None
    /\ UNCHANGED << config, threads, discord_message_to_x_post_map, counters,
                    discord_status, last_x_api_status, recent_activity,
                    x_posts, events >>

\* save_mapping_entry, the lock section: map[str(discord_msg_id)] = x_post_id
MappingWrite(m) ==
    /\ running = m
    /\ msgs[m].pc = "map_write"
    /\ LockFree
    /\ discord_message_to_x_post_map' =
           [discord_message_to_x_post_map EXCEPT ![m] = msgs[m].new_x_post_id]
    /\ msgs' = [msgs EXCEPT ![m].pc = "map_save"]
    /\ UNCHANGED << config, threads, unsaved, counters, discord_status,
                    last_x_api_status, recent_activity, storage, x_posts,
                    running, events >>

\* save_mapping_entry, the save_state() that follows; on_message ends
MappingSave(m, r) ==
    /\ running = m
    /\ msgs[m].pc = "map_save"
    /\ LockFree
    /\ r \in SaveResults
    /\ save_state(r)
    /\ unsaved' = (r # "ok")
    /\ msgs' = [msgs EXCEPT ![m] =
           Finish([@ EXCEPT !.saves = @ + 1, !.map_saved = (r = "ok")], "succeeded")]
    /\ running' = None
    /\ UNCHANGED << config, threads, discord_message_to_x_post_map, counters,
                    discord_status, last_x_api_status, recent_activity,
                    x_posts, events >>

\* the except branch without its posts_failed += 1
FailState_NoCount(m) ==
    /\ running = m
    /\ msgs[m].pc = "fail"
    /\ LockFree
    /\ last_x_api_status' = "Failed"
    /\ msgs' = [msgs EXCEPT ![m].pc = "fail_activity"]
    /\ UNCHANGED << config, threads, unsaved, discord_message_to_x_post_map,
                    counters, discord_status, recent_activity, storage,
                    x_posts, running, events >>

\* except Exception: with state_lock: posts_failed += 1; last_x_api_status
FailState(m) ==
    /\ running = m
    /\ msgs[m].pc = "fail"
    /\ LockFree
    /\ posts_failed' = posts_failed + 1
    /\ last_x_api_status' = "Failed"
    /\ msgs' = [msgs EXCEPT ![m].pc = "fail_activity"]
    /\ UNCHANGED << config, threads, unsaved, discord_message_to_x_post_map,
                    posts_attempted, posts_succeeded, discord_status,
                    recent_activity, storage, x_posts, running, events >>

\* the except branch without its add_activity call: a silent drop
FailActivity_Silent(m) ==
    /\ running = m
    /\ msgs[m].pc = "fail_activity"
    /\ LockFree
    /\ msgs' = [msgs EXCEPT ![m].pc = "fail_save"]
    /\ UNCHANGED << config, threads, unsaved, discord_message_to_x_post_map,
                    counters, discord_status, last_x_api_status,
                    recent_activity, storage, x_posts, running, events >>

FailActivity(m) ==
    /\ running = m
    /\ msgs[m].pc = "fail_activity"
    /\ LockFree
    /\ add_activity("X Post", "Failed", m)
    /\ msgs' = [msgs EXCEPT ![m] = Did([@ EXCEPT !.pc = "fail_save"], "Failed")]
    /\ UNCHANGED << config, threads, unsaved, discord_message_to_x_post_map,
                    counters, discord_status, last_x_api_status, storage,
                    x_posts, running, events >>

\* save_state(), return None; on_message writes no mapping and ends
FailSave(m, r) ==
    /\ running = m
    /\ msgs[m].pc = "fail_save"
    /\ LockFree
    /\ r \in SaveResults
    /\ save_state(r)
    /\ unsaved' = (r # "ok")
    /\ msgs' = [msgs EXCEPT ![m] = Finish([@ EXCEPT !.saves = @ + 1], "failed")]
    /\ running' = None
    /\ UNCHANGED << config, threads, discord_message_to_x_post_map, counters,
                    discord_status, last_x_api_status, recent_activity,
                    x_posts, events >>

\* -------------------------------------------------------- connection events
\* on_ready: load_state() without the lock, then the status and the activity
on_ready(r) ==
    /\ running = None
    /\ events < MaxEvents
    /\ LockFree
    /\ events' = events + 1
    /\ load_state(r)
    /\ discord_status' = "Connected"
    /\ add_activity("Discord", "Connected", 0)
    /\ UNCHANGED << config, threads, unsaved, last_x_api_status, storage,
                    x_posts, msgs, running >>

\* on_disconnect that also cancels the coroutines waiting for a worker
on_disconnect_Cancels ==
    /\ running = None
    /\ events < MaxEvents
    /\ LockFree
    /\ events' = events + 1
    /\ discord_status' = "Disconnected"
    /\ add_activity("Discord", "Disconnected", 0)
    /\ msgs' = [m \in MsgIds |->
                   IF msgs[m].pc \in {"download", "upload"}
                   THEN Finish(msgs[m], "cancelled") ELSE msgs[m]]
    /\ UNCHANGED << config, threads, unsaved, discord_message_to_x_post_map,
                    counters, last_x_api_status, storage, x_posts, running >>

\* on_disconnect: the status, then the activity
on_disconnect ==
    /\ running = None
    /\ events < MaxEvents
    /\ LockFree
    /\ events' = events + 1
    /\ discord_status' = "Disconnected"
    /\ add_activity("Discord", "Disconnected", 0)
    /\ UNCHANGED << config, threads, unsaved, discord_message_to_x_post_map,
                    counters, last_x_api_status, storage, x_posts, msgs,
                    running >>

on_connect ==
    /\ running = None
    /\ events < MaxEvents
    /\ LockFree
    /\ events' = events + 1
    /\ discord_status' = "Connecting"
    /\ UNCHANGED << config, threads, unsaved, discord_message_to_x_post_map,
                    counters, last_x_api_status, recent_activity, storage,
                    x_posts, msgs, running >>

on_resumed ==
    /\ running = None
    /\ events < MaxEvents
    /\ LockFree
    /\ events' = events + 1
    /\ discord_status' = "Connected (Resumed)"
    /\ add_activity("Discord", "Resumed", 0)
    /\ UNCHANGED << config, threads, unsaved, discord_message_to_x_post_map,
                    counters, last_x_api_status, storage, x_posts, msgs,
                    running >>

\* ------------------------------------------------------------ specification
Places == {"channel", "thread", "elsewhere"}
Texts == {"", "hello"}

Next ==
    \/ \E m \in MsgIds, author_self \in BOOLEAN, place \in Places,
          root \in RootIds, text \in Texts, n_att \in 0 .. MaxAttachments :
          on_message(m, author_self, place, root, text, n_att)
    \/ \E m \in MsgIds : PostToXBegin(m)
    \/ \E m \in MsgIds, ok \in BOOLEAN : DownloadReturn(m, ok)
    \/ \E m \in MsgIds, ok \in BOOLEAN : UploadReturn(m, ok)
    \/ \E m \in MsgIds, ok \in BOOLEAN : CreateTweet(m, ok)
    \/ \E m \in MsgIds : SuccessState(m)
    \/ \E m \in MsgIds : SuccessActivity(m)
    \/ \E m \in MsgIds, r \in SaveResults : SuccessSave(m, r)
    \/ \E m \in MsgIds : MappingWrite(m)
    \/ \E m \in MsgIds, r \in SaveResults : MappingSave(m, r)
    \/ \E m \in MsgIds : FailState(m)
    \/ \E m \in MsgIds : FailActivity(m)
    \/ \E m \in MsgIds, r \in SaveResults : FailSave(m, r)
    \/ \E r \in LoadResults : on_ready(r)
    \/ on_disconnect
    \/ on_connect
    \/ on_resumed

Spec == Init /\ [][Next]_vars

\* ------------------------------------------------------- fair scheduling
\* The dispatcher thread alone, as in Spec, with the scheduling the program
\* runs under: the event loop runs a coroutine that is ready to run, a
\* worker of the pool runs the call it was given, and every network call
\* returns or raises.  A step of the handling of m that stays possible is
\* therefore taken.
Handling(m) ==
    \/ PostToXBegin(m)
    \/ \E ok \in BOOLEAN : DownloadReturn(m, ok)
    \/ \E ok \in BOOLEAN : UploadReturn(m, ok)
    \/ \E ok \in BOOLEAN : CreateTweet(m, ok)
    \/ SuccessState(m)
    \/ SuccessActivity(m)
    \/ \E r \in SaveResults : SuccessSave(m, r)
    \/ MappingWrite(m)
    \/ \E r \in SaveResults : MappingSave(m, r)
    \/ FailState(m)
    \/ FailActivity(m)
    \/ \E r \in SaveResults : FailSave(m, r)

NextFair ==
    \/ \E m \in 1 .. MaxFairMsgs, author_self \in BOOLEAN, place \in Places,
          root \in RootIds, text \in Texts, n_att \in 0 .. MaxFairAttachments :
          on_message(m, author_self, place, root, text, n_att)
    \/ \E m \in MsgIds : Handling(m)
    \/ \E r \in LoadResults : on_ready(r)
    \/ on_disconnect
    \/ on_connect
    \/ on_resumed

SpecFair ==
    Init /\ [][NextFair]_vars /\ \A m \in MsgIds : WF_vars(Handling(m))

\* ------------------------------------------------ two threads, step by step
\* The status thread (Flask) serves /api/status while the dispatcher thread
\* runs the handlers.  A `with state_lock` section of the dispatcher is still
\* one action, taken when the lock is free.  What is split here is what the
\* other thread can cut into: load_state, which assigns its four globals one
\* after the other without the lock, and the lock section of
\* route_api_status, which reads the globals one after the other while
\* load_state may be writing them.
Shared ==
    << recent_activity, discord_status, last_x_api_status, posts_attempted,
       posts_succeeded, posts_failed >>

\* A write made without the lock lands in a route_api_status call that
\* holds it: the call has one more instant of the shared state to its name.
Seen(new) ==
    IF state_lock = "status"
    THEN [status_request EXCEPT !.instants = @ \cup {new}]
    ELSE status_request

\* on_ready starts; load_state: discord_message_to_x_post_map = ...
ReadyLoadMap(r) ==
    /\ running = None
    /\ events < MaxEvents
    /\ ready.pc = "idle"
    /\ events' = events + 1
    /\ running' = ReadyTask
    /\ ready' = [pc |-> "posts_attempted", r |-> r]
    /\ discord_message_to_x_post_map' = Loaded(r).map
    /\ UNCHANGED << config, unsaved, lock_ops, state_lock, status_request, counters,
                    discord_status, last_x_api_status, recent_activity,
                    storage, x_posts, msgs >>

\* load_state: posts_attempted = ...
ReadyLoadAttempted ==
    /\ running = ReadyTask
    /\ ready.pc = "posts_attempted"
    /\ ready' = [ready EXCEPT !.pc = "posts_succeeded"]
    /\ posts_attempted' = Loaded(ready.r).attempted
    /\ UNCHANGED << config, unsaved, lock_ops, state_lock, discord_message_to_x_post_map,
                    posts_succeeded, posts_failed, discord_status,
                    last_x_api_status, recent_activity, storage, x_posts, msgs,
                    running, events >>
    /\ status_request' = Seen(Shared')

\* load_state: posts_succeeded = ...
ReadyLoadSucceeded ==
    /\ running = ReadyTask
    /\ ready.pc = "posts_succeeded"
    /\ ready' = [ready EXCEPT !.pc = "posts_failed"]
    /\ posts_succeeded' = Loaded(ready.r).succeeded
    /\ UNCHANGED << config, unsaved, lock_ops, state_lock, discord_message_to_x_post_map,
                    posts_attempted, posts_failed, discord_status,
                    last_x_api_status, recent_activity, storage, x_posts, msgs,
                    running, events >>
    /\ status_request' = Seen(Shared')

\* load_state: posts_failed = ...; load_state returns
ReadyLoadFailed ==
    /\ running = ReadyTask
    /\ ready.pc = "posts_failed"
    /\ ready' = [ready EXCEPT !.pc = "discord_status"]
    /\ posts_failed' = Loaded(ready.r).failed
    /\ UNCHANGED << config, unsaved, lock_ops, state_lock, discord_message_to_x_post_map,
                    posts_attempted, posts_succeeded, discord_status,
                    last_x_api_status, recent_activity, storage, x_posts, msgs,
                    running, events >>
    /\ status_request' = Seen(Shared')

\* on_ready: with state_lock: discord_status = "Connected"
ReadyStatus ==
    /\ running = ReadyTask
    /\ ready.pc = "discord_status"
    /\ LockFree
    /\ ready' = [ready EXCEPT !.pc = "add_activity"]
    /\ discord_status' = "Connected"
    /\ UNCHANGED << config, unsaved, lock_ops, state_lock, status_request,
                    discord_message_to_x_post_map, counters, last_x_api_status,
                    recent_activity, storage, x_posts, msgs, running, events >>

\* on_ready: add_activity("Discord", "Connected", ..); on_ready returns
ReadyActivity ==
    /\ running = ReadyTask
    /\ ready.pc = "add_activity"
    /\ LockFree
    /\ ready' = NotReady
    /\ running' = None
    /\ add_activity("Discord", "Connected", 0)
    /\ UNCHANGED << config, unsaved, lock_ops, state_lock, status_request,
                    discord_message_to_x_post_map, counters, discord_status,
                    last_x_api_status, storage, x_posts, msgs, events >>

\* route_api_status takes the lock and reads the log and the two statuses,
\* which are written under the lock only
ApiStatusBegin ==
    /\ status_request.pc = "idle"
    /\ LockFree
    /\ state_lock' = "status"
    /\ status_request' =
           [status_request EXCEPT !.pc = "posts_attempted",
                                  !.activity_log = recent_activity,
                                  !.current_discord_status = discord_status,
                                  !.current_last_x_api_status = last_x_api_status,
                                  !.instants = {Shared}]
    /\ UNCHANGED << config, unsaved, lock_ops, ready, discord_message_to_x_post_map,
                    counters, discord_status, last_x_api_status,
                    recent_activity, storage, x_posts, msgs, running, events >>

\* current_posts_attempted = posts_attempted
ApiStatusReadAttempted ==
    /\ status_request.pc = "posts_attempted"
    /\ status_request' =
           [status_request EXCEPT !.pc = "posts_succeeded",
                                  !.current_posts_attempted = posts_attempted]
    /\ UNCHANGED << config, unsaved, lock_ops, state_lock, ready,
                    discord_message_to_x_post_map, counters, discord_status,
                    last_x_api_status, recent_activity, storage, x_posts, msgs,
                    running, events >>

\* current_posts_succeeded = posts_succeeded
ApiStatusReadSucceeded ==
    /\ status_request.pc = "posts_succeeded"
    /\ status_request' =
           [status_request EXCEPT !.pc = "posts_failed",
                                  !.current_posts_succeeded = posts_succeeded]
    /\ UNCHANGED << config, unsaved, lock_ops, state_lock, ready,
                    discord_message_to_x_post_map, counters, discord_status,
                    last_x_api_status, recent_activity, storage, x_posts, msgs,
                    running, events >>

\* current_posts_failed = posts_failed; the lock is released
ApiStatusReadFailed ==
    /\ status_request.pc = "posts_failed"
    /\ state_lock' = "free"
    /\ status_request' =
           [status_request EXCEPT !.pc = "status_data",
                                  !.current_posts_failed = posts_failed]
    /\ UNCHANGED << config, unsaved, lock_ops, ready, discord_message_to_x_post_map,
                    counters, discord_status, last_x_api_status,
                    recent_activity, storage, x_posts, msgs, running, events >>

\* status_data is built from the locals and returned
ApiStatusRespond ==
    /\ status_request.pc = "status_data"
    /\ status_request' = IdleRequest
    /\ UNCHANGED << config, unsaved, lock_ops, state_lock, ready,
                    discord_message_to_x_post_map, counters, discord_status,
                    last_x_api_status, recent_activity, storage, x_posts, msgs,
                    running, events >>

NextThreads ==
    \/ \E m \in 1 .. MaxThreadMsgs, author_self \in BOOLEAN, place \in Places,
          root \in RootIds, text \in Texts, n_att \in 0 .. MaxThreadAttachments :
          on_message(m, author_self, place, root, text, n_att)
    \/ \E m \in MsgIds : PostToXBegin(m)
    \/ \E m \in MsgIds, ok \in BOOLEAN : DownloadReturn(m, ok)
    \/ \E m \in MsgIds, ok \in BOOLEAN : UploadReturn(m, ok)
    \/ \E m \in MsgIds, ok \in BOOLEAN : CreateTweet(m, ok)
    \/ \E m \in MsgIds : SuccessState(m)
    \/ \E m \in MsgIds : SuccessActivity(m)
    \/ \E m \in MsgIds, r \in SaveResults : SuccessSave(m, r)
    \/ \E m \in MsgIds : MappingWrite(m)
    \/ \E m \in MsgIds, r \in SaveResults : MappingSave(m, r)
    \/ \E m \in MsgIds : FailState(m)
    \/ \E m \in MsgIds : FailActivity(m)
    \/ \E m \in MsgIds, r \in SaveResults : FailSave(m, r)
    \/ \E r \in LoadResults : ReadyLoadMap(r)
    \/ ReadyLoadAttempted
    \/ ReadyLoadSucceeded
    \/ ReadyLoadFailed
    \/ ReadyStatus
    \/ ReadyActivity
    \/ on_disconnect
    \/ on_connect
    \/ on_resumed
    \/ ApiStatusBegin
    \/ ApiStatusReadAttempted
    \/ ApiStatusReadSucceeded
    \/ ApiStatusReadFailed
    \/ ApiStatusRespond

SpecThreads == Init /\ [][NextThreads]_vars

\* ------------------------------------------------- the activity log alone
\* add_activity called over and over on the log as line 80 creates it.  The
\* details of an entry are the number of the call (events counts the calls),
\* which tells the entries apart the way their timestamps do.
LogKinds == {<< "Discord", "Disconnected" >>, << "X Post", "Success" >>}

InitLog == Imported /\ recent_activity = << >>

AddActivityCall(type, status) ==
    /\ events < MaxInserts
    /\ LockFree
    /\ events' = events + 1
    /\ add_activity(type, status, events + 1)
    /\ UNCHANGED << config, threads, unsaved, discord_message_to_x_post_map,
                    counters, discord_status, last_x_api_status, storage,
                    x_posts, msgs, running >>

NextLog == \E kind \in LogKinds : AddActivityCall(kind[1], kind[2])

SpecLog == InitLog /\ [][NextLog]_vars

\* ------------------------------------------- the JSON file, keys and values
\* Above, a message id stands for the key str(id) and the persisted document
\* is kept as the values it holds.  Here the dict and the JSON document are
\* kept with the Python type of every key: << "int", n >> is the int n and
\* << "str", n >> the string of its decimal digits.  An X post id is the
\* string the remote service returns; the counters are ints.
PyInt(n) == << "int", n >>
PyStr(n) == << "str", n >>

\* str(v): the decimal string of an int, a string as it is
Str(v) == << "str", v[2] >>

EmptyDict == [k \in {} |-> None]

\* the mapping write with the key as it comes: map[discord_msg_id] = x_post_id
PutEntry_IntKey(d, discord_msg_id, x_post_id) ==
    [k \in DOMAIN d \cup {discord_msg_id} |->
        IF k = discord_msg_id THEN x_post_id ELSE d[k]]

\* save_mapping_entry's write: map[str(discord_msg_id)] = x_post_id
PutEntry(d, discord_msg_id, x_post_id) ==
    [k \in DOMAIN d \cup {Str(discord_msg_id)} |->
        IF k = Str(discord_msg_id) THEN x_post_id ELSE d[k]]

\* json.dump writes every key of an object as a string: an int key becomes
\* its decimal string.  Strings and ints as values are written as they are.
JsonKey(k) == Str(k)
JsonObject(d) ==
    [jk \in {JsonKey(k) : k \in DOMAIN d} |->
        d[CHOOSE k \in DOMAIN d : JsonKey(k) = jk]]

Memory ==
    [map |-> discord_message_to_x_post_map, attempted |-> posts_attempted,
     succeeded |-> posts_succeeded, failed |-> posts_failed]

\* save_state, file branch, no error: json.dump(data_to_save, f)
JsonDump(data) ==
    [file |-> "ok", map |-> JsonObject(data.map), attempted |-> data.attempted,
     succeeded |-> data.succeeded, failed |-> data.failed]

\* load_state, file branch, no error: json.load(f) and the four .get calls;
\* the keys of the loaded object are taken as they are
JsonLoad(doc) ==
    [map |-> doc.map, attempted |-> doc.attempted,
     succeeded |-> doc.succeeded, failed |-> doc.failed]

XIds == {FirstXId + j : j \in 0 .. MaxMsgs - 1}

\* the dict after save_mapping_entry(k, xs[k]) for every message k that has
\* an X post id in xs; message.id is an int
Entries(xs) ==
    LET F[k \in 0 .. MaxMsgs] ==
            IF k = 0 THEN EmptyDict
            ELSE IF xs[k] = None THEN F[k - 1]
            ELSE PutEntry(F[k - 1], PyInt(k), PyStr(xs[k]))
    IN F[MaxMsgs]

\* Any mapping save_mapping_entry can build and any counters, file backend,
\* no state file yet.  events counts the calls made: save_state, load_state.
InitRoundTrip ==
    /\ USING_REPLIT_DB = FALSE
    /\ clients_ok = TRUE
    /\ \E xs \in [MsgIds -> XIds \cup {None}] :
           discord_message_to_x_post_map = Entries(xs)
    /\ posts_attempted \in 0 .. MaxCount
    /\ posts_succeeded \in 0 .. MaxCount
    /\ posts_failed \in 0 .. MaxCount
    /\ discord_status = "Initializing"
    /\ last_x_api_status = "Unknown"
    /\ recent_activity = << >>
    /\ storage = [file |-> "missing", map |-> EmptyDict, attempted |-> 0,
                  succeeded |-> 0, failed |-> 0]
    /\ x_posts = 0
    /\ msgs = [m \in MsgIds |-> NewMsg]
    /\ running = None
    /\ events = 0
    /\ unsaved = FALSE
    /\ state_lock = "free"
    /\ status_request = IdleRequest
    /\ ready = NotReady
    /\ lock_ops = NoLockOps

\* save_state() to the file, no error
RoundTripSave ==
    /\ events = 0
    /\ LockFree
    /\ events' = 1
    /\ storage' = JsonDump(Memory)
    /\ unsaved' = FALSE
    /\ UNCHANGED << config, threads, discord_message_to_x_post_map, counters,
                    discord_status, last_x_api_status, recent_activity,
                    x_posts, msgs, running >>

\* load_state() from the file, no error
RoundTripLoad ==
    /\ events = 1
    /\ storage.file = "ok"
    /\ events' = 2
    /\ discord_message_to_x_post_map' = JsonLoad(storage).map
    /\ posts_attempted' = JsonLoad(storage).attempted
    /\ posts_succeeded' = JsonLoad(storage).succeeded
    /\ posts_failed' = JsonLoad(storage).failed
    /\ UNCHANGED << config, threads, unsaved, discord_status,
                    last_x_api_status, recent_activity, storage, x_posts, msgs,
                    running >>

NextRoundTrip == RoundTripSave \/ RoundTripLoad

SpecRoundTrip == InitRoundTrip /\ [][NextRoundTrip]_vars


\* ------------------------------------------------- state_lock, op by op
\* Who holds state_lock, and what its holder does while holding it.  Every
\* function of main.py is the sequence of the operations it makes, in
\* program order, the functions it calls included:
\*   "acquire", "release"   entering and leaving a `with state_lock:` block
\*   "memory"               statements that read or write the globals
\*   "file"                 a read or write of MAPPING_FILE
\*   "network"              a call that blocks its thread on a remote service
\*   "await", "resume"      `await loop.run_in_executor(..)`: the coroutine
\*                          gives the call to a worker and is suspended; the
\*                          result is back and the loop resumes it
\*   "return"               the handler returns; the loop is free again
\* A task makes the operation at the head of its sequence; state_lock is a
\* threading.Lock, so "acquire" waits until the lock is free, whoever holds
\* it.  The data of the program stays as Init leaves it.

\* `with state_lock:` around statements that only touch memory
Section == << "acquire", "memory", "release" >>

AddActivityOps == Section
GetXPostIdOps == Section

\* state_db[..] = .. for the four keys, or open(MAPPING_FILE, 'w') + json.dump
BackendWrite ==
    IF USING_REPLIT_DB THEN << "network", "network", "network", "network" >>
    ELSE << "file" >>

\* state_db.get(..) for the four keys, or open(MAPPING_FILE, 'r') + json.load
BackendRead ==
    IF USING_REPLIT_DB THEN << "network", "network", "network", "network" >>
    ELSE << "file" >>

\* save_state: the whole write is inside `with state_lock:`
SaveStateOps == << "acquire" >> \o BackendWrite \o << "release" >>

\* load_state: no lock; the globals are assigned as the values are read
LoadStateOps == BackendRead \o << "memory" >>

\* save_mapping_entry with the save_state() call inside its `with` block
SaveMappingEntryOps_Nested ==
    << "acquire", "memory" >> \o SaveStateOps \o << "release" >>

\* save_mapping_entry: the lock section, then save_state()
SaveMappingEntryOps == Section \o SaveStateOps

\* for attachment in discord_media_attachments: download, then upload
RECURSIVE MediaOps(_)
MediaOps(n) ==
    IF n = 0 THEN << >>
    ELSE << "await", "resume", "await", "resume" >> \o MediaOps(n - 1)

\* What one post_to_x call can run into
Paths == {"posted", "create_tweet_raises", "download_raises", "upload_raises"}

\* post_to_x for n attachments (n <= MediaLimit); a media call that raises
\* is that of attachment n
PostToXOps(n, path) ==
    IF ~clients_ok THEN AddActivityOps
    ELSE Section
         \o (CASE path = "download_raises" ->
                      MediaOps(n - 1) \o << "await", "resume" >>
               [] path = "upload_raises" -> MediaOps(n)
               [] OTHER -> MediaOps(n) \o << "network" >>)
         \o Section \o AddActivityOps \o SaveStateOps

\* on_message
OnMessageOps(author_self, place, mapped, text, n_att, path) ==
    IF Ignored(author_self, place) THEN << >>
    ELSE (IF place = "thread" THEN GetXPostIdOps ELSE << >>)
         \o (IF place = "thread" /\ ~mapped THEN AddActivityOps
             ELSE IF Empty(text, n_att) THEN AddActivityOps
             ELSE PostToXOps(n_att, path)
                  \o (IF place = "channel" /\ clients_ok /\ path = "posted"
                      THEN SaveMappingEntryOps ELSE << >>))

OnReadyOps == LoadStateOps \o Section \o AddActivityOps
OnDisconnectOps == Section \o AddActivityOps
OnConnectOps == Section
OnResumedOps == Section \o AddActivityOps

\* route_api_status: one lock section, then status_data and jsonify
RouteApiStatusOps == Section \o << "memory" >>

\* What post_to_x can run into with n attachments
PathsOf(n) == IF n = 0 THEN {"posted", "create_tweet_raises"} ELSE Paths

\* The handlers the dispatcher can start
Handlers ==
    {OnReadyOps, OnDisconnectOps, OnConnectOps, OnResumedOps}
    \cup UNION {{OnMessageOps(author_self, place, mapped, text, n_att, path) :
                     author_self \in BOOLEAN, place \in Places,
                     mapped \in BOOLEAN, text \in Texts,
                     path \in PathsOf(n_att)} : n_att \in 0 .. MaxLockMedia}

Thread(t) == IF t = StatusTask THEN "status" ELSE "dispatcher"

\* The task is what its thread is executing
OnThread(t) == t = StatusTask \/ running = t

NextOp(t) == IF lock_ops[t] = << >> THEN "none" ELSE Head(lock_ops[t])

Advance(t) == lock_ops' = [lock_ops EXCEPT ![t] = Tail(@)]

\* An event arrives while the loop is free: its handler starts
LockEvent(t, ops) ==
    /\ t # StatusTask
    /\ lock_ops[t] = << "event" >>
    /\ running = None
    /\ running' = t
    /\ lock_ops' = [lock_ops EXCEPT ![t] = ops \o << "return" >>]
    /\ UNCHANGED << config, unsaved, state_lock, status_request, ready,
                    discord_message_to_x_post_map, counters, discord_status,
                    last_x_api_status, recent_activity, storage, x_posts, msgs,
                    events >>

\* The status thread gets a request for /api/status
LockRequest ==
    /\ lock_ops[StatusTask] = << >>
    /\ lock_ops' = [lock_ops EXCEPT ![StatusTask] = RouteApiStatusOps]
    /\ UNCHANGED << config, unsaved, state_lock, status_request, ready,
                    discord_message_to_x_post_map, counters, discord_status,
                    last_x_api_status, recent_activity, storage, x_posts, msgs,
                    running, events >>

\* `with state_lock:` is entered: Lock.acquire() returns once the lock is free
LockAcquire(t) ==
    /\ OnThread(t)
    /\ NextOp(t) = "acquire"
    /\ state_lock = "free"
    /\ state_lock' = Thread(t)
    /\ Advance(t)
    /\ UNCHANGED << config, unsaved, status_request, ready,
                    discord_message_to_x_post_map, counters, discord_status,
                    last_x_api_status, recent_activity, storage, x_posts, msgs,
                    running, events >>

\* the `with` block is left
LockRelease(t) ==
    /\ OnThread(t)
    /\ NextOp(t) = "release"
    /\ state_lock' = "free"
    /\ Advance(t)
    /\ UNCHANGED << config, unsaved, status_request, ready,
                    discord_message_to_x_post_map, counters, discord_status,
                    last_x_api_status, recent_activity, storage, x_posts, msgs,
                    running, events >>

\* statements on memory are done, or a file or network call returns or raises
LockCompute(t) ==
    /\ OnThread(t)
    /\ NextOp(t) \in {"memory", "file", "network"}
    /\ Advance(t)
    /\ UNCHANGED << config, unsaved, state_lock, status_request, ready,
                    discord_message_to_x_post_map, counters, discord_status,
                    last_x_api_status, recent_activity, storage, x_posts, msgs,
                    running, events >>

\* await loop.run_in_executor(..): the coroutine is suspended
LockAwait(t) ==
    /\ running = t
    /\ NextOp(t) = "await"
    /\ running' = None
    /\ Advance(t)
    /\ UNCHANGED << config, unsaved, state_lock, status_request, ready,
                    discord_message_to_x_post_map, counters, discord_status,
                    last_x_api_status, recent_activity, storage, x_posts, msgs,
                    events >>

\* the worker's call is over: the loop, once free, resumes the coroutine
LockResume(t) ==
    /\ running = None
    /\ NextOp(t) = "resume"
    /\ running' = t
    /\ Advance(t)
    /\ UNCHANGED << config, unsaved, state_lock, status_request, ready,
                    discord_message_to_x_post_map, counters, discord_status,
                    last_x_api_status, recent_activity, storage, x_posts, msgs,
                    events >>

\* the handler returns
LockReturn(t) ==
    /\ running = t
    /\ NextOp(t) = "return"
    /\ running' = None
    /\ Advance(t)
    /\ UNCHANGED << config, unsaved, state_lock, status_request, ready,
                    discord_message_to_x_post_map, counters, discord_status,
                    last_x_api_status, recent_activity, storage, x_posts, msgs,
                    events >>

NextLock ==
    \/ \E t \in LockTasks, ops \in Handlers : LockEvent(t, ops)
    \/ LockRequest
    \/ \E t \in LockTasks : LockAcquire(t)
    \/ \E t \in LockTasks : LockRelease(t)
    \/ \E t \in LockTasks : LockCompute(t)
    \/ \E t \in LockTasks : LockAwait(t)
    \/ \E t \in LockTasks : LockResume(t)
    \/ \E t \in LockTasks : LockReturn(t)

SpecLock == Init /\ [][NextLock]_vars

\* --------------------------------------------------------------- properties
\* post_to_x has been called for m and has not returned
Publishing(m) ==
    msgs[m].pc \in {"post_to_x", "download", "upload", "create_tweet", "success",
                    "success_activity", "success_save", "fail", "fail_activity",
                    "fail_save"}

\* m is an initial message whose handling has finished with a successful post
PublishedInitial(m) ==
    msgs[m].pc = "done" /\ msgs[m].outcome = "succeeded" /\ msgs[m].is_initial

\* C1: whenever no post_to_x call is in flight, posts_attempted equals
\* posts_succeeded + posts_failed.
C1_CountersReconcile ==
    (\A m \in MsgIds : ~Publishing(m))
        => posts_attempted = posts_succeeded + posts_failed

\* C2: once an initial message has been published and its handling has
\* finished, get_x_post_id of its id is the id create_tweet returned for it,
\* in every later state.
C2_LookupReturnsPostId ==
    \A m \in MsgIds :
        PublishedInitial(m) => get_x_post_id(m) = msgs[m].new_tweet_id

\* C3: the mapping has an entry for m exactly when m is an initial message
\* that was published (an entry only for an initial message create_tweet
\* returned an id for, and an entry for every initial message whose handling
\* finished with a successful post), and no step of the handling of a thread
\* reply changes the mapping.
C3_EntryIffPublishedInitial ==
    /\ [](\A m \in MsgIds :
            /\ get_x_post_id(m) # None
                 => msgs[m].is_initial /\ msgs[m].new_tweet_id # None
            /\ PublishedInitial(m) => get_x_post_id(m) # None)
    /\ [][\A m \in MsgIds :
            (running = m /\ msgs[m].place = "thread")
                => discord_message_to_x_post_map' = discord_message_to_x_post_map]_vars

HasRequest(m) == DOMAIN msgs[m].request # {}
FailPcs == {"fail", "fail_activity", "fail_save"}
\* the handles of the first n attachments of m, in input order
FirstMedia(m, n) == [k \in 1 .. n |-> MediaId(m, k)]

\* What C5 says of the request post_to_x gives create_tweet.
C5_Request(m) ==
    LET q == msgs[m].request
        root == msgs[m].root
    IN /\ q["text"] = msgs[m].text
       /\ ("in_reply_to_tweet_id" \in DOMAIN q) <=> (msgs[m].place = "thread")
       /\ "in_reply_to_tweet_id" \in DOMAIN q
            => /\ root \in MsgIds
               /\ q["in_reply_to_tweet_id"] = msgs[root].new_tweet_id
               /\ q["in_reply_to_tweet_id"] # None
       /\ ("media_ids" \in DOMAIN q) <=> (msgs[m].count >= 1)
       /\ "media_ids" \in DOMAIN q
            => q["media_ids"] = FirstMedia(m, msgs[m].count)
       /\ (msgs[m].is_initial /\ msgs[m].n_att = 0) => DOMAIN q = {"text"}

\* C5 as the spec states it: the request has in_reply_to_tweet_id exactly for
\* a resolved thread reply (the root's post id) and media_ids exactly when an
\* attachment was uploaded; when create_tweet returns an id posts_succeeded
\* goes up by 1, and when the handling of an initial message ends its
\* mapping is in the persisted state.
C5_RequestAndPersistedMapping ==
    /\ [](\A m \in MsgIds : HasRequest(m) => C5_Request(m))
    /\ [][\A m \in MsgIds :
            /\ (msgs[m].pc = "success" /\ msgs'[m].pc # "success")
                 => posts_succeeded' = posts_succeeded + 1
            /\ (msgs[m].pc = "map_save" /\ msgs'[m].pc = "done")
                 => /\ storage'.file = "ok"
                    /\ storage'.map[m] = msgs[m].new_tweet_id]_vars

\* C5 as amended: the same, but when the handling of an initial message ends
\* its mapping is in memory, and in the persisted state if that save_state
\* call succeeded.
C5_RequestAndSavedMapping ==
    /\ [](\A m \in MsgIds : HasRequest(m) => C5_Request(m))
    /\ [][\A m \in MsgIds :
            /\ (msgs[m].pc = "success" /\ msgs'[m].pc # "success")
                 => posts_succeeded' = posts_succeeded + 1
            /\ (msgs[m].pc = "map_save" /\ msgs'[m].pc = "done")
                 => /\ get_x_post_id(m)' = msgs[m].new_tweet_id
                    /\ msgs[m].new_tweet_id # None
                    /\ msgs'[m].map_saved
                         => /\ storage'.file = "ok"
                            /\ storage'.map[m] = msgs[m].new_tweet_id]_vars

\* C5 witness: a reply with an attachment went out as a reply to its root's
\* post, and the root's mapping had been saved.
C5_Witness ==
    \E m \in MsgIds :
        /\ msgs[m].pc = "success_save"
        /\ DOMAIN msgs[m].request = {"text", "media_ids", "in_reply_to_tweet_id"}
        /\ msgs[msgs[m].root].map_saved
        /\ storage.map[msgs[m].root] = msgs[m].request["in_reply_to_tweet_id"]

\* C6: once a download, an upload or create_tweet has raised, the publish
\* adds exactly 1 to posts_failed and nothing to posts_succeeded, records
\* exactly one Failed activity, returns no id and leaves no mapping entry.
C6_RaiseCountsOneFailure ==
    /\ [](\A m \in MsgIds : msgs[m].raised =>
            /\ msgs[m].pc \in FailPcs \cup {"done"}
            /\ msgs[m].pc = "done" => msgs[m].outcome = "failed"
            /\ msgs[m].new_x_post_id = None
            /\ get_x_post_id(m) = None
            /\ msgs[m].activities =
                   IF msgs[m].pc \in {"fail", "fail_activity"} THEN << >>
                   ELSE << "Failed" >>)
    /\ [][\A m \in MsgIds : (msgs[m].raised /\ running = m) =>
            /\ posts_attempted' = posts_attempted
            /\ posts_succeeded' = posts_succeeded
            /\ posts_failed' =
                   IF msgs[m].pc = "fail" THEN posts_failed + 1 ELSE posts_failed
            /\ recent_activity' =
                   IF msgs[m].pc = "fail_activity"
                   THEN AppendLeft(recent_activity,
                                   Activity("X Post", "Failed", m))
                   ELSE recent_activity]_vars

\* C6 witness: create_tweet raised after two uploads, and the failure has
\* been counted and logged.
C6_Witness ==
    \E m \in MsgIds :
        /\ msgs[m].pc = "fail_save"
        /\ msgs[m].raised
        /\ HasRequest(m)
        /\ Len(msgs[m].media_ids) = 2
        /\ posts_failed = 1
        /\ recent_activity[1] = Activity("X Post", "Failed", m)

\* the call of m that raised was a download or an upload
MediaRaised(m) ==
    /\ msgs[m].raised_at > 0
    /\ msgs[m].calls[msgs[m].raised_at][1] \in {"download", "upload"}

\* C7: when the download or the upload of an attachment fails, that call is
\* the last network call of the publish: no later attachment is touched,
\* create_tweet is never called, and the publish ends as a failure.
C7_MediaErrorAborts ==
    \A m \in MsgIds :
        /\ MediaRaised(m) =>
            /\ Len(msgs[m].calls) = msgs[m].raised_at
            /\ ~HasRequest(m)
            /\ msgs[m].pc \in FailPcs
        /\ (msgs[m].pc = "done" /\ msgs[m].raised) => msgs[m].outcome = "failed"

\* C7 witness: the upload of the 2nd of 3 attachments failed and the publish
\* was counted as failed.
C7_Witness ==
    \E m \in MsgIds :
        /\ MediaRaised(m)
        /\ msgs[m].calls[msgs[m].raised_at] = << "upload", 2 >>
        /\ msgs[m].n_att = 3
        /\ msgs[m].pc = "fail_save"

\* the i-th media call of a publish: download 1, upload 1, download 2, ...
ExpectedMediaCall(i) ==
    << IF i % 2 = 1 THEN "download" ELSE "upload", (i + 1) \div 2 >>

\* C8: the media calls are download 1, upload 1, download 2, ... for the
\* first 4 attachments at most; the request carries their handles in input
\* order; a publish fails only if a call raised.
C8_FirstFourInOrder ==
    \A m \in MsgIds :
        /\ \A i \in 1 .. Len(msgs[m].calls) :
               msgs[m].calls[i][1] # "create_tweet"
                   => /\ msgs[m].calls[i] = ExpectedMediaCall(i)
                      /\ msgs[m].calls[i][2] <= Min(msgs[m].n_att, MediaLimit)
        /\ (HasRequest(m) /\ msgs[m].n_att > 0)
               => /\ "media_ids" \in DOMAIN msgs[m].request
                  /\ msgs[m].request["media_ids"] =
                         FirstMedia(m, Min(msgs[m].n_att, MediaLimit))
        /\ msgs[m].pc \in FailPcs => msgs[m].raised

\* C8 witness: a message with 5 attachments was posted with 4 handles.
C8_Witness ==
    \E m \in MsgIds :
        /\ msgs[m].n_att = 5
        /\ msgs[m].pc = "success_save"
        /\ Len(msgs[m].request["media_ids"]) = 4
        /\ Len(msgs[m].calls) = 9

\* C9: without the X clients post_to_x returns at once: no counter and no
\* mapping entry changes, no network call is made, no id is returned.
C9_NoClientNoAttempt ==
    [][\A m \in MsgIds :
          (~clients_ok /\ running = m /\ msgs[m].pc = "post_to_x")
            => /\ counters' = counters
               /\ discord_message_to_x_post_map' = discord_message_to_x_post_map
               /\ x_posts' = x_posts
               /\ msgs'[m].pc = "done"
               /\ msgs'[m].calls = << >>
               /\ msgs'[m].new_x_post_id = None]_vars

\* C9 witness: a message was turned away for want of a client
C9_Witness ==
    \E m \in MsgIds :
        /\ msgs[m].outcome = "no_client"
        /\ recent_activity[1] = Activity("X Post", "Failed", m)
        /\ ~clients_ok

\* C10: no step makes posts_attempted, posts_succeeded or posts_failed smaller.
C10_CountersNeverDecrease ==
    [][/\ posts_attempted' >= posts_attempted
       /\ posts_succeeded' >= posts_succeeded
       /\ posts_failed' >= posts_failed]_vars

\* the handling of m made a publish attempt and has ended
Attempted(m) ==
    msgs[m].pc = "done" /\ msgs[m].outcome \in {"succeeded", "failed"}

\* A step of m's handling adds to the log exactly when it records an
\* activity of m, and writes the persisted state only in a save_state call.
C11_StepsAccounted ==
    \A m \in MsgIds : running = m =>
        /\ recent_activity' =
               IF Len(msgs'[m].activities) > Len(msgs[m].activities)
               THEN AppendLeft(recent_activity,
                               Activity("X Post",
                                        msgs'[m].activities[Len(msgs'[m].activities)],
                                        m))
               ELSE recent_activity
        /\ Len(msgs'[m].activities) <= Len(msgs[m].activities) + 1
        /\ msgs'[m].saves \in {msgs[m].saves, msgs[m].saves + 1}
        /\ msgs'[m].saves = msgs[m].saves => storage' = storage

\* C11 as the spec states it: the handling of a message whose publish was
\* attempted calls save_state exactly once and records exactly one activity,
\* whether the publish succeeded (initial message or reply) or failed.
C11_PersistsOnceLogsOnce ==
    /\ [](\A m \in MsgIds : Attempted(m) =>
            /\ msgs[m].saves = 1
            /\ msgs[m].activities =
                   << IF msgs[m].outcome = "succeeded" THEN "Success" ELSE "Failed" >>)
    /\ [][C11_StepsAccounted]_vars

\* C11 as amended: exactly one activity on every branch; save_state exactly
\* once for a reply and for a failure, and twice for a successful initial
\* message (once in post_to_x, once more in save_mapping_entry).
C11_PersistsPerMutationLogsOnce ==
    /\ [](\A m \in MsgIds : Attempted(m) =>
            /\ msgs[m].saves =
                   IF msgs[m].is_initial /\ msgs[m].outcome = "succeeded"
                   THEN 2 ELSE 1
            /\ msgs[m].activities =
                   << IF msgs[m].outcome = "succeeded" THEN "Success" ELSE "Failed" >>)
    /\ [][C11_StepsAccounted]_vars

\* C11 witness: an initial message was posted and saved twice, and a later
\* publish failed and was saved once; each left one activity.
C11_Witness ==
    \E m, k \in MsgIds :
        /\ PublishedInitial(m) /\ msgs[m].saves = 2
        /\ msgs[m].activities = << "Success" >>
        /\ msgs[k].outcome = "failed" /\ msgs[k].saves = 1
        /\ msgs[k].activities = << "Failed" >>
        /\ recent_activity[1] = Activity("X Post", "Failed", k)

\* this step is a save_state call made by m's handling
SaveStep(m) == running = m /\ msgs'[m].saves = msgs[m].saves + 1

\* C12: a save_state call that fails leaves the in-memory mapping and counters
\* as they were, the publish still ends with its outcome (a successful
\* initial post keeps its id and goes on to its in-memory mapping entry), and
\* until a later save succeeds no on_ready replaces the in-memory mapping and
\* counters by persisted values.
C12_FailedSaveKeepsMemory ==
    [][/\ \A m \in MsgIds : (SaveStep(m) /\ unsaved') =>
            /\ discord_message_to_x_post_map' = discord_message_to_x_post_map
            /\ counters' = counters
            /\ msgs'[m].new_tweet_id = msgs[m].new_tweet_id
            /\ msgs[m].pc = "success_save" =>
                   IF msgs[m].is_initial
                   THEN /\ msgs'[m].pc = "map_write"
                        /\ msgs'[m].new_x_post_id = msgs[m].new_tweet_id
                   ELSE msgs'[m].pc = "done" /\ msgs'[m].outcome = "succeeded"
            /\ msgs[m].pc = "map_save" =>
                   /\ msgs'[m].pc = "done" /\ msgs'[m].outcome = "succeeded"
                   /\ get_x_post_id(m)' = msgs[m].new_tweet_id
            /\ msgs[m].pc = "fail_save" =>
                   msgs'[m].pc = "done" /\ msgs'[m].outcome = "failed"
       /\ \A r \in LoadResults : (unsaved /\ on_ready(r)) =>
            /\ discord_message_to_x_post_map' = discord_message_to_x_post_map
            /\ counters' = counters]_vars

\* load_state with result r raises inside its try block
LoadFails(r) == r = "error" \/ storage.file # "ok"

\* C13: when load_state fails (backend unreachable, file missing, document
\* corrupt) it leaves an empty mapping and the three counters at 0 and raises
\* nothing: on_ready goes on to set the status and log, and the event loop is
\* free for the next message.
C13_FailedLoadStartsFresh ==
    [][\A r \in LoadResults : (on_ready(r) /\ LoadFails(r)) =>
          /\ discord_message_to_x_post_map' = EmptyMap
          /\ posts_attempted' = 0
          /\ posts_succeeded' = 0
          /\ posts_failed' = 0
          /\ discord_status' = "Connected"
          /\ recent_activity'[1] = Activity("Discord", "Connected", 0)
          /\ running' = None]_vars

\* C13 witness: the state file was missing when on_ready loaded it, and the
\* first message delivered after that has been posted.
C13_Witness ==
    /\ ~USING_REPLIT_DB /\ storage.file = "missing"
    /\ discord_status = "Connected"
    /\ msgs[1].pc = "success_save" /\ msgs[2].pc = "new"
    /\ posts_attempted = 1 /\ posts_succeeded = 1
    /\ recent_activity[2] = Activity("Discord", "Connected", 0)

\* on_message handles m as a message of the monitored scope with no text
\* and no attachments, not written by the bot
EmptyInScope(m, place, root) ==
    place \in {"channel", "thread"} /\ on_message(m, FALSE, place, root, "", 0)

\* The handling ends in on_message: post_to_x is not reached, no network
\* call is made and no counter moves.
NeverPosted(m) ==
    /\ msgs'[m].pc = "done"
    /\ msgs'[m].calls = << >>
    /\ running' = None
    /\ counters' = counters
    /\ x_posts' = x_posts

\* C14 as the spec states it: a message of the monitored scope with no text
\* and no attachments gets one Info entry "Skipped" and never reaches
\* post_to_x, whatever the mapping holds.
C14_EmptySkippedAsInfo ==
    [][\A m \in MsgIds, place \in Places, root \in RootIds :
          EmptyInScope(m, place, root) =>
              /\ NeverPosted(m)
              /\ msgs'[m].outcome = "skipped"
              /\ recent_activity' =
                     AppendLeft(recent_activity, Activity("Info", "Skipped", m))]_vars

\* C14 as amended: such a message never reaches post_to_x; it gets the Info
\* entry "Skipped", except in a thread whose root has no mapping entry,
\* where it is dropped before the empty test with the Warning entry
\* "Ignored Reply".
C14_EmptyNeverPosted ==
    [][\A m \in MsgIds, place \in Places, root \in RootIds :
          EmptyInScope(m, place, root) =>
              /\ NeverPosted(m)
              /\ IF place = "thread" /\ get_x_post_id(root) = None
                 THEN /\ msgs'[m].outcome = "ignored_reply"
                      /\ recent_activity' =
                             AppendLeft(recent_activity,
                                        Activity("Warning", "Ignored Reply", m))
                 ELSE /\ msgs'[m].outcome = "skipped"
                      /\ recent_activity' =
                             AppendLeft(recent_activity,
                                        Activity("Info", "Skipped", m))]_vars

\* C14 witness: an empty message was skipped while the mapping held the
\* entry of an earlier post.
C14_Witness ==
    \E m \in MsgIds :
        /\ msgs[m].outcome = "skipped"
        /\ msgs[m].activities = << "Skipped" >>
        /\ recent_activity[1] = Activity("Info", "Skipped", m)
        /\ \E k \in MsgIds : get_x_post_id(k) # None

\* C15: handling a message that is outside the monitored channel and its
\* threads, or that the bot wrote itself, changes nothing: mapping, counters,
\* activity log, connection status, last API status and persisted state stay
\* as they are, the handler ends at once and no network call is made.
C15_OutOfScopeChangesNothing ==
    [][\A m \in MsgIds : (msgs[m].pc = "new" /\ msgs'[m].pc # "new") =>
          \A author_self \in BOOLEAN, place \in Places, root \in RootIds,
             text \in Texts, n_att \in 0 .. MaxAttachments :
            (on_message(m, author_self, place, root, text, n_att)
                 /\ (author_self \/ place = "elsewhere"))
              => /\ discord_message_to_x_post_map' = discord_message_to_x_post_map
                 /\ counters' = counters
                 /\ recent_activity' = recent_activity
                 /\ discord_status' = discord_status
                 /\ last_x_api_status' = last_x_api_status
                 /\ storage' = storage
                 /\ x_posts' = x_posts
                 /\ msgs'[m].pc = "done"
                 /\ msgs'[m].calls = << >>
                 /\ msgs'[m].activities = << >>
                 /\ msgs'[m].saves = 0
                 /\ running' = None]_vars

\* C15 witness: a message was ignored after an earlier one had been posted
\* and mapped, and the state still shows only the earlier one.
C15_Witness ==
    \E m, k \in MsgIds :
        /\ msgs[m].outcome = "ignored"
        /\ PublishedInitial(k) /\ k < m
        /\ get_x_post_id(k) # None
        /\ recent_activity[1] = Activity("X Post", "Success", k)
        /\ counters = << 1, 1, 0 >>

\* C17: after any number of add_activity calls on an empty log, the log
\* holds the last calls, at most 10 of them, newest first (the entry of the
\* latest call at index 0, here Sequences' index 1); after capacity + 1 calls
\* the entry of the first call is gone and that of the last call is on top.
C17_LogBoundedNewestFirst ==
    /\ Len(recent_activity) = Min(events, ActivityCap)
    /\ \A i \in 1 .. Len(recent_activity) :
           recent_activity[i].id = events - i + 1
    /\ events = ActivityCap + 1 =>
           /\ recent_activity[1].id = ActivityCap + 1
           /\ \A i \in 1 .. Len(recent_activity) : recent_activity[i].id # 1

\* C17 witness: capacity + 1 calls were made; the log is full, the last call
\* is on top and the second call is the oldest entry left.
C17_Witness ==
    /\ events = ActivityCap + 1
    /\ Len(recent_activity) = ActivityCap
    /\ recent_activity[1] = Activity("X Post", "Success", ActivityCap + 1)
    /\ recent_activity[ActivityCap].id = 2

\* C18: for every mapping and every counters in memory, what load_state
\* reads back from the file a successful save_state wrote is the mapping and
\* the counters that were saved: the load changes nothing in memory.
C18_FileRoundTrip ==
    /\ [](storage.file = "ok" => JsonLoad(storage) = Memory)
    /\ [][(events = 1 /\ events' = 2) => Memory' = Memory]_vars

\* C18 witness: a mapping with an entry for every message and three
\* different counters were saved and loaded again.
C18_Witness ==
    /\ events = 2
    /\ DOMAIN discord_message_to_x_post_map = {PyStr(m) : m \in MsgIds}
    /\ discord_message_to_x_post_map[PyStr(1)] = PyStr(FirstXId)
    /\ counters = << 2, 1, 0 >>
    /\ storage.map = discord_message_to_x_post_map

\* posts_succeeded in memory counts the publish of the initial message m:
\* its handling is past the lock section of lines 279-282 and still owns
\* the event loop
CountedInMemory(m) ==
    /\ msgs[m].is_initial
    /\ msgs[m].pc \in {"success_activity", "success_save", "map_write", "map_save"}

\* the persisted document counts it: the save_state call of post_to_x for m
\* succeeded and was the last save
CountedInStorage(m) ==
    /\ msgs[m].is_initial
    /\ msgs[m].pc \in {"map_write", "map_save"}
    /\ ~unsaved

\* C19: posts_succeeded never counts the publish of an initial message while
\* the mapping lacks that message's entry, neither in the shared state as a
\* thread taking state_lock would read it nor in the persisted document.
C19_CountAndEntryTogether ==
    \A m \in MsgIds :
        /\ (CountedInMemory(m) /\ LockFree) => get_x_post_id(m) # None
        /\ CountedInStorage(m) =>
               storage.succeeded < posts_succeeded \/ storage.map[m] # None

\* what a route_api_status call that has read everything will report
Reported ==
    << status_request.activity_log, status_request.current_discord_status,
       status_request.current_last_x_api_status,
       status_request.current_posts_attempted,
       status_request.current_posts_succeeded,
       status_request.current_posts_failed >>

\* C16: what /api/status reports (activity log, connection status, last API
\* status, the three counters) is the shared state as it was at one instant
\* while the call held the lock, and the reported posts_attempted is at
\* least the reported posts_succeeded + posts_failed.
C16_StatusIsOneInstant ==
    status_request.pc = "status_data" =>
        /\ Reported \in status_request.instants
        /\ status_request.current_posts_attempted >=
               status_request.current_posts_succeeded
                   + status_request.current_posts_failed

\* C20: while a thread holds state_lock no other thread writes the mapping,
\* a counter, the connection status or the activity log (it would have to
\* hold the lock to do so).  Here the holder is the status thread, inside
\* route_api_status, which writes none of them itself.
C20_NoAccessWithoutLock ==
    [][state_lock # "free" =>
          /\ discord_message_to_x_post_map' = discord_message_to_x_post_map
          /\ counters' = counters
          /\ discord_status' = discord_status
          /\ recent_activity' = recent_activity]_vars

\* The task whose thread holds state_lock and is executing it
Holds(t) == OnThread(t) /\ state_lock = Thread(t)

\* C21: state_lock is held around reads and writes of memory only: in no
\* reachable state is the holder of state_lock inside a network call, for
\* either backend; in particular not while save_state writes the hosted
\* key-value store.
C21_LockNeverAcrossNetwork ==
    \A t \in LockTasks : Holds(t) => NextOp(t) # "network"

\* A network call of message m's publish has been made and is not back yet:
\* the download or the upload in a worker, or create_tweet
Outstanding(m) == msgs[m].pc \in {"download", "upload", "create_tweet"}

\* C22: while a media download, a media upload or the create_tweet call of
\* a message is outstanding, the dispatcher thread is not blocked: no
\* coroutine owns the event loop, so the handler of another inbound event
\* can begin before the call returns.
C22_LoopFreeDuringNetworkCall ==
    \A m \in MsgIds : Outstanding(m) => running = None

\* The attempt of m is counted and its result is not
Started(m) ==
    msgs[m].pc \in {"download", "upload", "create_tweet", "success", "fail"}

\* The result of m's attempt is counted
Counted(m) ==
    \/ msgs[m].pc \in {"success_activity", "success_save", "map_write",
                       "map_save", "fail_activity", "fail_save"}
    \/ Attempted(m)

\* What a step does to a publish that has started: it counts the result of
\* m, once, as a success or as a failure, or it leaves m's publish started,
\* and if it is a step of m, the two counters of results as they are; once
\* the result of m is counted no step of m counts again.
PublishStep(m) ==
    /\ Started(m) =>
         \/ /\ msgs[m].pc = "success"
            /\ posts_succeeded' = posts_succeeded + 1
            /\ posts_failed' = posts_failed
            /\ Counted(m)'
         \/ /\ msgs[m].pc = "fail"
            /\ posts_failed' = posts_failed + 1
            /\ posts_succeeded' = posts_succeeded
            /\ Counted(m)'
         \/ /\ Started(m)'
            /\ \/ UNCHANGED << posts_succeeded, posts_failed >>
               \/ msgs'[m] = msgs[m]
    /\ Counted(m) =>
         /\ Counted(m)'
         /\ \/ UNCHANGED << posts_succeeded, posts_failed >>
            \/ msgs'[m] = msgs[m]

\* C23: under fair scheduling of the dispatcher and the worker pool, with
\* every network call returning or raising, every publish that has started
\* (has incremented posts_attempted) finishes: it increments posts_succeeded
\* or posts_failed, one of them and once, and its handler ends; no other
\* event cancels or abandons it.
C23_StartedPublishFinishes ==
    /\ [][\A m \in MsgIds : PublishStep(m)]_vars
    /\ \A m \in MsgIds : Started(m) ~> Attempted(m)

\* Message 1 waits for its download while the handler of message 2 and a
\* connection event run, and message 1 has since been counted
C23_Witness ==
    /\ Attempted(1)
    /\ msgs[1].outcome = "succeeded"
    /\ msgs[2].pc = "download"
    /\ events = MaxEvents

\* t is at a `with state_lock:` and has not entered it
AtAcquire(t) == OnThread(t) /\ NextOp(t) = "acquire"

\* What t does before it next takes or gives back the lock, suspends or
\* returns, is i - 1 operations that wait for nothing; operation i is the
\* release
ReleasesAt(t, i) ==
    /\ lock_ops[t][i] = "release"
    /\ \A j \in 1 .. i - 1 : lock_ops[t][j] \in {"memory", "file", "network"}

\* C24: no thread tries to acquire state_lock while it holds it, and every
\* acquisition is followed by a release: the lock is only held by a task
\* that is running on its thread, and what that task has left to do before
\* its release never waits for the lock or for the event loop.  So in any
\* interleaving of the handlers and route_api_status a task that waits for
\* the lock waits for a holder that can go on: the dispatcher thread and the
\* status thread never deadlock on state_lock.
C24_NoReacquireNoDeadlock ==
    /\ \A t \in LockTasks : AtAcquire(t) => state_lock # Thread(t)
    /\ state_lock # "free" => \E t \in LockTasks : Holds(t)
    /\ \A t \in LockTasks :
           Holds(t) => \E i \in 1 .. Len(lock_ops[t]) : ReleasesAt(t, i)
    /\ \A t \in LockTasks :
           (OnThread(t) /\ NextOp(t) = "release") => state_lock = Thread(t)

\* The status thread waits at its `with state_lock:` while a handler on the
\* dispatcher thread holds the lock in its last save_state call
C24_Witness ==
    /\ AtAcquire(StatusTask)
    /\ \E t \in LockTasks :
           /\ Holds(t)
           /\ t # StatusTask
           /\ lock_ops[t] = BackendWrite \o << "release", "return" >>

====
